---- MODULE Spec2Model ----
(***************************************************************************)
(* Model of the DE2-MeteoAnalysis repository:                              *)
(*   src/fetchandupload2.py  the ingestion script (fetch, drop empty rows, *)
(*                           save CSV, upload to GCS, publish to Pub/Sub)  *)
(*   src/app3.py             the Streamlit dashboard (load, parse time,    *)
(*                           sort, latest complete row, rolling mean)      *)
(* A nullable cell is a sequence of length at most one: <<>> is NaN/None,  *)
(* <<v>> is the number v.                                                  *)
(***************************************************************************)
EXTENDS Integers, Sequences, FiniteSets, TLC

VARIABLES
    pc,          \* ingestion: the statement the script is about to run
    response,    \* ingestion: what requests.get returned
    df,          \* ingestion: the DataFrame (None before line 39)
    csv_file,    \* ingestion: local file weather_backup.csv
    blob,        \* ingestion: the GCS object gs://BUCKET_NAME/CSV_FILENAME
    published,   \* ingestion: messages handed to publisher.publish, in order
    stages,      \* ingestion: the stages the run has started, in order
    failed,      \* ingestion: the stages that raised
    session_df,  \* dashboard: st.session_state.df
    cache,       \* dashboard: the st.cache_data entry of load_gcs_csv
    gcs_csv,     \* dashboard: the CSV object in the bucket
    upload_csv,  \* dashboard: the CSV file the user has at hand to upload
    view,        \* dashboard: what the last script run read and rendered
    prep,        \* preparation block applied to a loaded frame, and applied again
    roll         \* rolling mean over a temperature column, row by row

ingestVars == <<pc, response, df, csv_file, blob, published, stages, failed>>

dashVars == <<session_df, cache, gcs_csv, upload_csv, view>>

vars == <<ingestVars, dashVars, prep, roll>>

notIngest == <<dashVars, prep, roll>>

notDash == <<ingestVars, prep, roll>>

----------------------------------------------------------------------------
(* Bounds of the model *)

MaxRows == 2

----------------------------------------------------------------------------
(* Cells and rows *)

NaN == <<>>

IsNull(c) == c = NaN

NotNull(c) == c # NaN

None == [kind |-> "None"]

\* fetchandupload2.py:17-23
variables ==
    {"temperature_2m", "soil_temperature_0_to_7cm", "soil_moisture_0_to_7cm",
     "dew_point_2m", "relative_humidity_2m"}

\* fetchandupload2.py:43, the subset argument of dropna
dropna_subset ==
    {"temperature_2m", "soil_temperature_0_to_7cm", "soil_moisture_0_to_7cm",
     "dew_point_2m", "relative_humidity_2m"}

\* df.head(24) at fetchandupload2.py:61
HeadCount == 24

Cells == {NaN, <<1>>}

\* One hourly observation as the API returns it, all five arrays present.
RawRecords == [variables -> Cells]

\* The hourly arrays of a body, row by row: row i is index label i-1 and
\* hour i-1.  The "time" array is not among the cells: dropna does not read
\* it, and the index label stands for the hour.
RowSeqs == UNION {[1..n -> RawRecords] : n \in 0..MaxRows}

Restrict(f, S) == [x \in S |-> f[x]]

\* A DataFrame: its data columns, and its rows with their index labels.
Frame(cols, rows) == [kind |-> "frame", cols |-> cols, rows |-> rows]

\* Cells of a CSV time column as text, and what pd.to_datetime makes of them.
\* Every record has a time cell (the timestamp is the one field that is not
\* nullable); the text may fail to parse.
\* A parsed timestamp is [hour |-> h], h hours after 2024-01-01 00:00.
TimeText == {"2024-01-01T00:00", "2024-01-01T01:00", "2024-01-01T02:00",
             "not-a-time"}

Text(s) == [text |-> s]

Timestamp(h) == [hour |-> h]

IsTimestamp(c) == "hour" \in DOMAIN c

Parseable(s) ==
    s \in {"2024-01-01T00:00", "2024-01-01T01:00", "2024-01-01T02:00",
           "2024-01-01 00:00:00", "2024-01-01 01:00:00", "2024-01-01 02:00:00"}

\* a parser that reads the date of the "YYYY-MM-DD HH:MM:SS" form and drops
\* its time of day
ParseHour_date_only(s) ==
    CASE s \in {"2024-01-01T00:00"} -> 0
      [] s \in {"2024-01-01T01:00"} -> 1
      [] s \in {"2024-01-01T02:00"} -> 2
      [] s \in {"2024-01-01 00:00:00", "2024-01-01 01:00:00",
                "2024-01-01 02:00:00"} -> 0

ParseHour(s) ==
    CASE s \in {"2024-01-01T00:00", "2024-01-01 00:00:00"} -> 0
      [] s \in {"2024-01-01T01:00", "2024-01-01 01:00:00"} -> 1
      [] s \in {"2024-01-01T02:00", "2024-01-01 02:00:00"} -> 2

\* to_csv writes a datetime64 cell as "YYYY-MM-DD HH:MM:SS".
FormatHour(h) ==
    CASE h = 0 -> "2024-01-01 00:00:00"
      [] h = 1 -> "2024-01-01 01:00:00"
      [] h = 2 -> "2024-01-01 02:00:00"

\* A CSV file: its header and its lines, cell by cell.
Csv(cols, lines) == [kind |-> "csv", cols |-> cols, lines |-> lines]

CsvCell(col, c) ==
    IF col = "time" /\ IsTimestamp(c) THEN Text(FormatHour(c.hour)) ELSE c

\* df.to_csv(..., index=False): the index labels are not written.
to_csv(frame) ==
    Csv(frame.cols,
        [i \in 1..Len(frame.rows) |->
            [c \in DOMAIN frame.rows[i].vals |-> CsvCell(c, frame.rows[i].vals[c])]])

----------------------------------------------------------------------------
(* The ingestion script, src/fetchandupload2.py *)

Min(a, b) == IF a <= b THEN a ELSE b

\* The index labels pd.DataFrame gives the rows of data: 0, 1, 2, ...
Indexed(cols, raws) ==
    [i \in 1..Len(raws) |-> [idx |-> i - 1, vals |-> Restrict(raws[i], cols)]]

\* What the HTTP collaborator can answer: any status, and a body that is
\* not JSON, JSON without "hourly", an "hourly" whose arrays differ in
\* length, or an "hourly" holding some of the five arrays.
HourlyColumns == {variables} \cup {variables \ {v} : v \in variables}

Bodies ==
    {[shape |-> s, cols |-> {}, raws |-> <<>>] :
        s \in {"not_json", "no_hourly", "ragged"}}
    \cup {[shape |-> "hourly", cols |-> c, raws |-> r] :
            c \in HourlyColumns, r \in RowSeqs}

Statuses == {200, 500}

Responses == [status : Statuses, body : Bodies]

Crash(stage) ==
    /\ pc' = "crashed"
    /\ failed' = failed \cup {stage}

\* how='any' in place of how='all'
DropAllNull_how_any(rows, subset) ==
    SelectSeq(rows, LAMBDA r : \A c \in subset : NotNull(r.vals[c]))

\* how='all': a row is dropped when every cell of the subset is null.
DropAllNull(rows, subset) ==
    SelectSeq(rows, LAMBDA r : \E c \in subset : NotNull(r.vals[c]))

\* line 37: response = requests.get(url)
Fetch ==
    /\ pc = "fetch"
    /\ stages' = Append(stages, "fetch")
    /\ \/ /\ Crash("fetch")
          /\ UNCHANGED response
       \/ /\ \E r \in Responses : response' = r
          /\ pc' = "json"
          /\ UNCHANGED failed
    /\ UNCHANGED <<df, csv_file, blob, published>>
    /\ UNCHANGED notIngest

\* lines 38-39: data = response.json()["hourly"]; df = pd.DataFrame(data)
BuildFrame ==
    /\ pc = "json"
    /\ IF response.body.shape = "hourly"
       THEN /\ df' = Frame(response.body.cols,
                           Indexed(response.body.cols, response.body.raws))
            /\ pc' = "dropna"
            /\ UNCHANGED failed
       ELSE /\ Crash("fetch")
            /\ UNCHANGED df
    /\ UNCHANGED <<response, csv_file, blob, published, stages>>
    /\ UNCHANGED notIngest

\* lines 42-45: df = df.dropna(subset=[...], how='all')
DropNa ==
    /\ pc = "dropna"
    /\ stages' = Append(stages, "normalize")
    /\ IF dropna_subset \subseteq df.cols
       THEN /\ df' = Frame(df.cols, DropAllNull(df.rows, dropna_subset))
            /\ pc' = "to_csv"
            /\ UNCHANGED failed
       ELSE /\ Crash("normalize")
            /\ UNCHANGED df
    /\ UNCHANGED <<response, csv_file, blob, published>>
    /\ UNCHANGED notIngest

\* line 47: df.to_csv(CSV_FILENAME, index=False)
ToCsv ==
    /\ pc = "to_csv"
    /\ \/ /\ Crash("to_csv")
          /\ UNCHANGED csv_file
       \/ /\ csv_file' = to_csv(df)
          /\ pc' = "upload"
          /\ UNCHANGED failed
    /\ UNCHANGED <<response, df, blob, published, stages>>
    /\ UNCHANGED notIngest

\* the upload wrapped in a try block like the publish
Upload_swallowed ==
    /\ pc = "upload"
    /\ stages' = Append(stages, "upload")
    /\ \/ /\ failed' = failed \cup {"upload"}
          /\ UNCHANGED blob
       \/ /\ blob' = csv_file
          /\ UNCHANGED failed
    /\ pc' = "publisher"
    /\ UNCHANGED <<response, df, csv_file, published>>
    /\ UNCHANGED notIngest

\* lines 51-54: blob.upload_from_filename(CSV_FILENAME)
Upload ==
    /\ pc = "upload"
    /\ stages' = Append(stages, "upload")
    /\ \/ /\ Crash("upload")
          /\ UNCHANGED blob
       \/ /\ blob' = csv_file
          /\ pc' = "publisher"
          /\ UNCHANGED failed
    /\ UNCHANGED <<response, df, csv_file, published>>
    /\ UNCHANGED notIngest

\* lines 58-60 and 65-66: the try block opens, the client is created
Publisher ==
    /\ pc = "publisher"
    /\ stages' = Append(stages, "publish")
    /\ \/ /\ pc' = "done"
          /\ failed' = failed \cup {"publish"}
       \/ /\ pc' = "publish"
          /\ UNCHANGED failed
    /\ UNCHANGED <<response, df, csv_file, blob, published>>
    /\ UNCHANGED notIngest

\* lines 61-64: one turn of the loop over df.head(24).iterrows()
PublishRow ==
    /\ pc = "publish"
    /\ Len(published) < Min(HeadCount, Len(df.rows))
    /\ LET row == df.rows[Len(published) + 1] IN
       \/ /\ published' = Append(published,
                 [i |-> row.idx, temp |-> row.vals["temperature_2m"]])
          /\ UNCHANGED <<pc, failed>>
       \/ /\ pc' = "done"
          /\ failed' = failed \cup {"publish"}
          /\ UNCHANGED published
    /\ UNCHANGED <<response, df, csv_file, blob, stages>>
    /\ UNCHANGED notIngest

\* line 61: the loop is exhausted and the script ends
PublishEnd ==
    /\ pc = "publish"
    /\ Len(published) = Min(HeadCount, Len(df.rows))
    /\ pc' = "done"
    /\ UNCHANGED <<response, df, csv_file, blob, published, stages, failed>>
    /\ UNCHANGED notIngest

\* The dashboard is not running.
Miss == [kind |-> "miss"]

DashIdle ==
    /\ session_df = None
    /\ cache = Miss
    /\ gcs_csv = None
    /\ upload_csv = None
    /\ view = None

IngestInit ==
    /\ pc = "fetch"
    /\ response = None
    /\ df = None
    /\ csv_file = None
    /\ blob = None
    /\ published = <<>>
    /\ stages = <<>>
    /\ failed = {}
    /\ DashIdle
    /\ prep = None
    /\ roll = None

IngestNext ==
    \/ Fetch
    \/ BuildFrame
    \/ DropNa
    \/ ToCsv
    \/ Upload
    \/ Publisher
    \/ PublishRow
    \/ PublishEnd

SpecIngest == IngestInit /\ [][IngestNext]_vars


----------------------------------------------------------------------------
(* The dashboard's preparation block, src/app3.py:69-80 *)

\* pd.to_datetime on one cell: a datetime stays, text is parsed.
to_datetime(c) == IF IsTimestamp(c) THEN c ELSE Timestamp(ParseHour(c.text))

\* pd.to_datetime raises on the first cell it cannot parse.
CanParseTime(frame) ==
    \A i \in 1..Len(frame.rows) :
        LET c == frame.rows[i].vals["time"] IN
        IsTimestamp(c) \/ Parseable(c.text)

SetColumn(r, col, v) ==
    [idx |-> r.idx,
     vals |-> [c \in DOMAIN r.vals \cup {col} |-> IF c = col THEN v ELSE r.vals[c]]]

\* line 70: df["time"] = pd.to_datetime(df["time"])
ParseTimeColumn(frame) ==
    Frame(frame.cols,
          [i \in 1..Len(frame.rows) |->
              SetColumn(frame.rows[i], "time", to_datetime(frame.rows[i].vals["time"]))])

HourOf(r) == r.vals["time"].hour

\* sort_values("time", ascending=False)
SortOrders_descending(rows) ==
    {p \in Permutations(1..Len(rows)) :
        \A i, j \in 1..Len(rows) : i < j => HourOf(rows[p[i]]) >= HourOf(rows[p[j]])}

\* line 71: df.sort_values("time").  kind defaults to "quicksort", which is
\* not stable: every ascending arrangement of the rows is a possible result.
SortOrders(rows) ==
    {p \in Permutations(1..Len(rows)) :
        \A i, j \in 1..Len(rows) : i < j => HourOf(rows[p[i]]) <= HourOf(rows[p[j]])}

Arrange(rows, p) == [i \in 1..Len(rows) |-> rows[p[i]]]

\* line 73: df.dropna(subset=["temperature_2m", "soil_moisture_0_to_7cm"])
kpi_subset == {"temperature_2m", "soil_moisture_0_to_7cm"}

DropAnyNull(rows, subset) ==
    SelectSeq(rows, LAMBDA r : \A c \in subset : NotNull(r.vals[c]))

Last(rows) == rows[Len(rows)]

\* lines 74-78
IncompleteData(rows) == Len(DropAnyNull(rows, kpi_subset)) = 0

\* the last row of the unfiltered frame, whatever its cells
Latest_unfiltered(rows) == Last(rows)

Latest(rows) ==
    IF IncompleteData(rows) THEN Last(rows) ELSE Last(DropAnyNull(rows, kpi_subset))


\* line 80: .rolling(window=24, min_periods=1).mean()
window == 24

min_periods == 1

\* The rolling mean keeps a running sum and a count of the non-null
\* observations in the window; an observation entering the window is added,
\* the one leaving it is removed.  The mean is the exact fraction <<sum, nobs>>.
RollZero == [sum |-> 0, nobs |-> 0]

RollAdd(st, c) ==
    IF NotNull(c) THEN [sum |-> st.sum + c[1], nobs |-> st.nobs + 1] ELSE st

\* the observation leaving the window is subtracted but still counted
RollRemove_keeps_count(st, c) ==
    IF NotNull(c) THEN [sum |-> st.sum - c[1], nobs |-> st.nobs] ELSE st

RollRemove(st, c) ==
    IF NotNull(c) THEN [sum |-> st.sum - c[1], nobs |-> st.nobs - 1] ELSE st

RollAdvance(st, temps, i) ==
    LET added == RollAdd(st, temps[i]) IN
    IF i > window THEN RollRemove(added, temps[i - window]) ELSE added

RollMean(st) ==
    IF st.nobs >= min_periods /\ st.nobs > 0 THEN <<st.sum, st.nobs>> ELSE NaN

RECURSIVE RollState(_, _)
RollState(temps, i) ==
    IF i = 0 THEN RollZero ELSE RollAdvance(RollState(temps, i - 1), temps, i)

Rolling(temps) == [i \in 1..Len(temps) |-> RollMean(RollState(temps, i))]

Column(rows, col) == [i \in 1..Len(rows) |-> rows[i].vals[col]]

\* line 80: df["temp_rolling_24h"] = ...
WithRolling(rows) ==
    LET means == Rolling(Column(rows, "temperature_2m")) IN
    [i \in 1..Len(rows) |-> SetColumn(rows[i], "temp_rolling_24h", means[i])]

\* lines 83-85: the three st.metric values
FormatFixed(c, places) ==
    IF IsNull(c) THEN [text |-> "nan"] ELSE [whole |-> c[1], places |-> places]

Kpis(latest, rows) ==
    [temperature |-> FormatFixed(latest.vals["temperature_2m"], 1),
     soil_moisture |-> FormatFixed(latest.vals["soil_moisture_0_to_7cm"], 2),
     records |-> Len(rows)]


\* lines 69-80 on a frame whose time column parses and that has a row:
\* what the block computes when the sort returns arrangement p.
Prepare(frame, p) ==
    LET parsed == ParseTimeColumn(frame)
        sorted == Arrange(parsed.rows, p)
    IN  [warning |-> IncompleteData(sorted),
         latest |-> Latest(sorted),
         kpis |-> Kpis(Latest(sorted), sorted),
         df |-> Frame(frame.cols \cup {"temp_rolling_24h"}, WithRolling(sorted))]

PrepareOrders(frame) == SortOrders(ParseTimeColumn(frame).rows)

----------------------------------------------------------------------------
(* The dashboard script, src/app3.py: one action per script run *)

\* line 38 and line 59: pd.read_csv gives the rows the labels 0, 1, 2, ...
read_csv(csv) ==
    Frame(csv.cols, [i \in 1..Len(csv.lines) |-> [idx |-> i - 1, vals |-> csv.lines[i]]])

DashTemps == {NaN, <<5>>, <<7>>}

DashSoils == {NaN, <<1>>}

TimedColumns == {"time", "temperature_2m", "soil_moisture_0_to_7cm"}

TimedLines ==
    {[time |-> Text(s), temperature_2m |-> t, soil_moisture_0_to_7cm |-> m] :
        s \in TimeText, t \in DashTemps, m \in DashSoils}

SeqsUpTo(S, n) == UNION {[1..k -> S] : k \in 0..n}

TimedCsvs == {Csv(TimedColumns, l) : l \in SeqsUpTo(TimedLines, MaxRows)}

\* The objects the bucket may hold: one without a time column, one with
\* rows out of order and two rows of the same hour, one whose time column
\* does not parse, one with a header and no rows.
GcsSamples ==
    {Csv(kpi_subset,
         <<[temperature_2m |-> <<7>>, soil_moisture_0_to_7cm |-> NaN]>>),
     Csv(TimedColumns,
         <<[time |-> Text("2024-01-01T02:00"), temperature_2m |-> <<7>>,
            soil_moisture_0_to_7cm |-> <<1>>],
           [time |-> Text("2024-01-01T00:00"), temperature_2m |-> NaN,
            soil_moisture_0_to_7cm |-> <<1>>],
           [time |-> Text("2024-01-01T00:00"), temperature_2m |-> <<5>>,
            soil_moisture_0_to_7cm |-> NaN]>>),
     Csv(TimedColumns,
         <<[time |-> Text("2024-01-01T00:00"), temperature_2m |-> <<5>>,
            soil_moisture_0_to_7cm |-> <<1>>],
           [time |-> Text("not-a-time"), temperature_2m |-> <<7>>,
            soil_moisture_0_to_7cm |-> <<1>>]>>),
     Csv(TimedColumns, <<>>)}

\* The files the user uploads: one without a time column, one whose time
\* column is headed "timestamp", one good, one whose time column does not
\* parse.
UploadSamples ==
    {Csv(kpi_subset,
         <<[temperature_2m |-> <<5>>, soil_moisture_0_to_7cm |-> <<1>>]>>),
     Csv(kpi_subset \cup {"timestamp"},
         <<[timestamp |-> Text("2024-01-01T00:00"), temperature_2m |-> <<5>>,
            soil_moisture_0_to_7cm |-> <<1>>]>>),
     Csv(TimedColumns,
         <<[time |-> Text("2024-01-01T01:00"), temperature_2m |-> <<7>>,
            soil_moisture_0_to_7cm |-> NaN],
           [time |-> Text("2024-01-01T00:00"), temperature_2m |-> <<5>>,
            soil_moisture_0_to_7cm |-> <<1>>]>>),
     Csv(TimedColumns,
         <<[time |-> Text("not-a-time"), temperature_2m |-> <<5>>,
            soil_moisture_0_to_7cm |-> <<1>>]>>)}

Hit(v) == [kind |-> "hit", value |-> v]

\* lines 23-41: load_gcs_csv under st.cache_data.  A cached result (None
\* included) is returned without a download; ok says whether the download
\* and the parse succeed.
load_gcs_csv(ok) ==
    IF cache.kind = "hit" THEN cache.value
    ELSE IF ok THEN read_csv(gcs_csv) ELSE None

\* lines 47-48 without their guard: the session's frame is reset on every run
Loaded_reset(use_gcs, button, file, ok) ==
    IF use_gcs
    THEN IF button THEN load_gcs_csv(ok) ELSE None
    ELSE IF file THEN read_csv(upload_csv) ELSE None

\* lines 47-60: st.session_state.df after the loading widgets have run
Loaded(use_gcs, button, file, ok) ==
    IF use_gcs
    THEN IF button THEN load_gcs_csv(ok) ELSE session_df
    ELSE IF file THEN read_csv(upload_csv) ELSE session_df

HasTimeColumn(frame) == "time" \in frame.cols

Outcome(session, shown, latest, kpis, final) ==
    [session |-> session, shown |-> shown, latest |-> latest, kpis |-> kpis,
     df |-> final]

\* lines 130-131
RenderNoData == Outcome(None, {"info"}, None, None, None)

\* the block of lines 70-127 run without the guard of line 69: KeyError
RenderNoTime_unguarded(frame) == Outcome(frame, {"raw", "exception"}, None, None, None)

\* lines 66-67 and 128-129
RenderNoTime(frame) == Outcome(frame, {"raw", "warning_no_time"}, None, None, None)

\* lines 66-70, pd.to_datetime raises: the script run ends with the exception
RenderBadTime(frame) == Outcome(frame, {"raw", "exception"}, None, None, None)

\* lines 66-76 on a frame without rows: df.iloc[-1] raises IndexError
RenderEmpty(frame) ==
    Outcome(ParseTimeColumn(frame), {"raw", "warning_incomplete", "exception"},
            None, None, None)

\* lines 66-127.  df is st.session_state.df itself, so the assignment of
\* line 70 lands in the session's frame; sort_values returns a new frame.
RenderPrepared(frame, p) ==
    LET out == Prepare(frame, p) IN
    Outcome(ParseTimeColumn(frame),
            {"raw", "kpis", "charts"}
                \cup (IF out.warning THEN {"warning_incomplete"} ELSE {}),
            out.latest, out.kpis, out.df)

\* line 59, pd.read_csv raises: the script run ends there and
\* st.session_state.df keeps what it held
RenderUploadError == Outcome(session_df, {"exception"}, None, None, None)

\* lines 62-131
Renders(frame) ==
    IF frame = None THEN {RenderNoData}
    ELSE IF ~HasTimeColumn(frame) THEN {RenderNoTime(frame)}
    ELSE IF ~CanParseTime(frame) THEN {RenderBadTime(frame)}
    ELSE IF Len(frame.rows) = 0 THEN {RenderEmpty(frame)}
    ELSE {RenderPrepared(frame, p) : p \in PrepareOrders(frame)}

\* One run of the script, top to bottom, for the widget values of this run.
Rerun ==
    \E use_gcs, button, file, ok \in BOOLEAN :
        LET unread == ~use_gcs /\ file /\ ~ok
            input == IF unread THEN None ELSE Loaded(use_gcs, button, file, ok)
        IN
        /\ cache' = IF use_gcs /\ button THEN Hit(input) ELSE cache
        /\ \E r \in (IF unread THEN {RenderUploadError} ELSE Renders(input)) :
            /\ session_df' = r.session
            /\ view' = [widgets |-> [use_gcs |-> use_gcs,
                                     button |-> use_gcs /\ button,
                                     file |-> ~use_gcs /\ file],
                        prior |-> session_df,
                        input |-> input,
                        shown |-> r.shown,
                        latest |-> r.latest,
                        kpis |-> r.kpis,
                        df |-> r.df]
        /\ UNCHANGED <<gcs_csv, upload_csv>>
        /\ UNCHANGED notDash

\* The user clears the cache from the app menu.
ClearCache ==
    /\ cache.kind = "hit"
    /\ cache' = Miss
    /\ UNCHANGED <<session_df, gcs_csv, upload_csv, view>>
    /\ UNCHANGED notDash

\* The ingestion script is not running.
IngestIdle ==
    /\ pc = "idle"
    /\ response = None
    /\ df = None
    /\ csv_file = None
    /\ blob = None
    /\ published = <<>>
    /\ stages = <<>>
    /\ failed = {}

DashInit ==
    /\ session_df = None
    /\ cache = Miss
    /\ gcs_csv \in GcsSamples
    /\ upload_csv \in UploadSamples
    /\ view = None
    /\ IngestIdle
    /\ prep = None
    /\ roll = None

DashNext ==
    \/ Rerun
    \/ ClearCache

SpecDash == DashInit /\ [][DashNext]_vars


----------------------------------------------------------------------------
(* The preparation block as a function of the loaded frame: applied once,   *)
(* and applied again to its own result written out and read back.           *)

DropColumn(frame, col) ==
    Frame(frame.cols \ {col},
          [i \in 1..Len(frame.rows) |->
              [idx |-> frame.rows[i].idx,
               vals |-> Restrict(frame.rows[i].vals, DOMAIN frame.rows[i].vals \ {col})]])

Prep(stage, input, first, reloaded, second) ==
    [stage |-> stage, input |-> input, first |-> first, reloaded |-> reloaded,
     second |-> second]

\* app3.py:69-80 on the frame read_csv returned
PrepareFirst ==
    /\ prep.stage = "loaded"
    /\ IF CanParseTime(prep.input) /\ Len(prep.input.rows) > 0
       THEN \E p \in PrepareOrders(prep.input) :
                prep' = Prep("prepared", prep.input, Prepare(prep.input, p), None, None)
       ELSE prep' = Prep("raised", prep.input, None, None, None)
    /\ UNCHANGED <<ingestVars, dashVars, roll>>

\* the prepared frame, less the derived column, written to CSV and read back
SaveAndReload ==
    /\ prep.stage = "prepared"
    /\ prep' = Prep("reloaded", prep.input, prep.first,
                    read_csv(to_csv(DropColumn(prep.first.df, "temp_rolling_24h"))),
                    None)
    /\ UNCHANGED <<ingestVars, dashVars, roll>>

\* app3.py:69-80 on the frame read back
PrepareSecond ==
    /\ prep.stage = "reloaded"
    /\ \E p \in PrepareOrders(prep.reloaded) :
           prep' = Prep("reprepared", prep.input, prep.first, prep.reloaded,
                        Prepare(prep.reloaded, p))
    /\ UNCHANGED <<ingestVars, dashVars, roll>>

PrepareInit ==
    /\ \E c \in TimedCsvs : prep = Prep("loaded", read_csv(c), None, None, None)
    /\ roll = None
    /\ IngestIdle
    /\ DashIdle

PrepareNext ==
    \/ PrepareFirst
    \/ SaveAndReload
    \/ PrepareSecond

SpecPrepare == PrepareInit /\ [][PrepareNext]_vars

----------------------------------------------------------------------------
(* The rolling mean of app3.py:80 over a long temperature column, one row   *)
(* at a time.                                                                *)

MaxLen == 30

RollTemps == {NaN, <<5>>, <<10>>}

\* Columns of MaxLen rows: a run of one value, one row of a second value,
\* then a run of a third.
RollColumns ==
    {[i \in 1..MaxLen |-> IF i <= k THEN x ELSE IF i = k + 1 THEN y ELSE z] :
        k \in 0..MaxLen, x \in RollTemps, y \in RollTemps, z \in RollTemps}

\* the window moves on to the next row and its mean is stored
RollRow ==
    /\ roll # None
    /\ Len(roll.out) < Len(roll.temps)
    /\ LET i == Len(roll.out) + 1
           st == RollAdvance(roll.st, roll.temps, i)
       IN  roll' = [temps |-> roll.temps, st |-> st, out |-> Append(roll.out, RollMean(st))]
    /\ UNCHANGED <<ingestVars, dashVars, prep>>

RollInit ==
    /\ \E t \in RollColumns : roll = [temps |-> t, st |-> RollZero, out |-> <<>>]
    /\ prep = None
    /\ IngestIdle
    /\ DashIdle

RollNext == RollRow

SpecRoll == RollInit /\ [][RollNext]_vars


----------------------------------------------------------------------------
(* Claims about the ingestion script, checked under SpecIngest *)

MeasuredFields ==
    {"temperature_2m", "soil_temperature_0_to_7cm", "soil_moisture_0_to_7cm",
     "dew_point_2m", "relative_humidity_2m"}

SomeMeasured(vals) == \E c \in MeasuredFields : vals[c] # <<>>

Normalized == pc \in {"to_csv", "upload", "publisher", "publish", "done"}
              \/ (pc = "crashed" /\ failed \cap {"to_csv", "upload"} # {})

\* C1: once the empty rows are removed, the frame holds exactly the raw
\* records with at least one of the five measured fields non-null, with
\* their values unchanged and in their original relative order; so it is no
\* longer than the input, holds no record with all five fields null, and
\* has lost no record with only some fields null.
C1_NormalizeKeepsNonEmptyRows ==
    Normalized =>
        LET raws == response.body.raws
            out == df.rows
        IN  /\ Len(out) <= Len(raws)
            /\ \A k \in 1..Len(out) :
                /\ out[k].idx \in 0..(Len(raws) - 1)
                /\ out[k].vals = raws[out[k].idx + 1]
                /\ SomeMeasured(out[k].vals)
            /\ \A j, k \in 1..Len(out) : j < k => out[j].idx < out[k].idx
            /\ \A i \in 1..Len(raws) :
                SomeMeasured(raws[i]) => \E k \in 1..Len(out) : out[k].idx = i - 1

\* C1 witness: two raw records, the first entirely null and dropped, the
\* second with some fields null and some not, kept.
C1_Witness ==
    /\ pc = "to_csv"
    /\ Len(response.body.raws) = 2
    /\ ~SomeMeasured(response.body.raws[1])
    /\ Len(df.rows) = 1
    /\ df.rows[1].idx = 1
    /\ df.rows[1].vals["temperature_2m"] = <<>>
    /\ df.rows[1].vals["dew_point_2m"] # <<>>

StageOrder == <<"fetch", "normalize", "upload", "publish">>

Started(stage) == \E i \in 1..Len(stages) : stages[i] = stage

\* C5: the stages start in the order fetch, normalize, upload, publish; a
\* failed fetch ends the run with no upload started, a failed upload ends
\* the run with no publish started, and a failed publish leaves the run
\* ending normally with the upload done.
C5_StagesGated ==
    /\ Len(stages) <= Len(StageOrder)
    /\ \A i \in 1..Len(stages) : stages[i] = StageOrder[i]
    /\ "fetch" \in failed =>
          pc = "crashed" /\ ~Started("upload") /\ blob = None
    /\ "upload" \in failed =>
          pc = "crashed" /\ ~Started("publish") /\ published = <<>> /\ blob = None
    /\ "publish" \in failed =>
          pc = "done" /\ Started("upload") /\ blob = csv_file /\ blob # None
    /\ pc = "crashed" => failed \cap {"fetch", "normalize", "to_csv", "upload"} # {}

\* C5 witness: the second publish raised, the run ended normally and the
\* object is in the bucket.
C5_Witness ==
    /\ pc = "done"
    /\ failed = {"publish"}
    /\ Len(published) = 1
    /\ Len(df.rows) = 2
    /\ blob = csv_file
    /\ stages = StageOrder

Malformed(r) ==
    \/ r.status # 200
    \/ r.body.shape # "hourly"
    \/ ~(MeasuredFields \subseteq r.body.cols)

\* C7: a non-200 response, a body without the hourly envelope, or an
\* envelope without one of the five field arrays makes the run fail before
\* normalization yields a series and before any CSV is written or uploaded.
C7_MalformedInputRejected ==
    (response # None /\ Malformed(response)) =>
        /\ pc \in {"json", "dropna", "crashed"}
        /\ csv_file = None
        /\ blob = None


----------------------------------------------------------------------------
(* Claims about the preparation block, checked under SpecPrepare *)

Prepared == prep.stage \in {"prepared", "reloaded", "reprepared"}

SameRecord(a, b) ==
    /\ a.idx = b.idx
    /\ \A c \in DOMAIN a.vals : a.vals[c] = b.vals[c]

Complete(r) ==
    r.vals["temperature_2m"] # <<>> /\ r.vals["soil_moisture_0_to_7cm"] # <<>>

CompleteAt(rows) == {i \in 1..Len(rows) : Complete(rows[i])}

Greatest(S) == CHOOSE m \in S : \A x \in S : x <= m

\* C2: on a non-empty series with a time column, the latest record is the
\* last record of the sorted series with temperature_2m and
\* soil_moisture_0_to_7cm both non-null; exactly when there is none, the
\* warning is raised and the last record of the sorted series is taken.
C2_LatestComplete ==
    Prepared =>
        LET sorted == prep.first.df.rows
            complete == CompleteAt(sorted)
        IN  /\ prep.first.warning <=> complete = {}
            /\ complete # {} => SameRecord(prep.first.latest, sorted[Greatest(complete)])
            /\ complete = {} => SameRecord(prep.first.latest, sorted[Len(sorted)])

\* C2 witness: the last record of the sorted series lacks soil moisture and
\* an earlier one is complete.
C2_Witness ==
    /\ prep.stage = "prepared"
    /\ Len(prep.first.df.rows) = 2
    /\ CompleteAt(prep.first.df.rows) = {1}
    /\ ~prep.first.warning

HoursAscending(rows) ==
    \A i, j \in 1..Len(rows) :
        i < j => rows[i].vals["time"].hour <= rows[j].vals["time"].hour

\* each input record appears exactly once, its time parsed and its other
\* cells as they were
PermutationOfInput(rows, input) ==
    /\ Len(rows) = Len(input)
    /\ \A i \in 1..Len(input) :
        \E k \in 1..Len(rows) :
            /\ rows[k].idx = input[i].idx
            /\ rows[k].vals["time"].hour = ParseHour(input[i].vals["time"].text)
            /\ \A c \in kpi_subset : rows[k].vals[c] = input[i].vals[c]
    /\ \A j, k \in 1..Len(rows) : j # k => rows[j].idx # rows[k].idx

TiesInInputOrder(rows) ==
    \A i, j \in 1..Len(rows) :
        (i < j /\ rows[i].vals["time"].hour = rows[j].vals["time"].hour)
            => rows[i].idx < rows[j].idx

\* C4 as amended: whatever the input order, the prepared series is a
\* permutation of the input records in ascending order of parsed
\* timestamp; the order among records of equal timestamp is not fixed.
C4_SortedPermutation ==
    Prepared =>
        /\ PermutationOfInput(prep.first.df.rows, prep.input.rows)
        /\ HoursAscending(prep.first.df.rows)

\* C4 as stated: the prepared series is a permutation of the input sorted
\* ascending by parsed timestamp, and records with equal timestamps keep
\* their input order.
C4_StableSort ==
    Prepared =>
        /\ PermutationOfInput(prep.first.df.rows, prep.input.rows)
        /\ HoursAscending(prep.first.df.rows)
        /\ TiesInInputOrder(prep.first.df.rows)

\* C4 witness: two records given latest first come out earliest first.
C4_Witness ==
    /\ prep.stage = "prepared"
    /\ Len(prep.input.rows) = 2
    /\ prep.input.rows[1].vals["time"].text = "2024-01-01T02:00"
    /\ prep.input.rows[2].vals["time"].text = "2024-01-01T00:00"
    /\ prep.first.df.rows[1].idx = 1
    /\ prep.first.df.rows[2].idx = 0

DistinctHours(rows) ==
    \A i, j \in 1..Len(rows) :
        i # j => ParseHour(rows[i].vals["time"].text) # ParseHour(rows[j].vals["time"].text)

SameValues(a, b) ==
    /\ Len(a) = Len(b)
    /\ \A i \in 1..Len(a) : a[i].vals = b[i].vals

\* C8: for a series of distinct timestamps, preparing the prepared series
\* again (written out without temp_rolling_24h and read back) gives the
\* same sorted series, the same temp_rolling_24h values, the same latest
\* record and the same warning as the first run.
C8_PrepareIdempotent ==
    (prep.stage = "reprepared" /\ DistinctHours(prep.input.rows)) =>
        /\ SameValues(prep.second.df.rows, prep.first.df.rows)
        /\ prep.second.latest.vals = prep.first.latest.vals
        /\ prep.second.warning = prep.first.warning

\* C8 witness: a second run over a series that the first run had to reorder.
C8_Witness ==
    /\ prep.stage = "reprepared"
    /\ DistinctHours(prep.input.rows)
    /\ Len(prep.input.rows) = 2
    /\ prep.first.df.rows[1].idx = 1
    /\ prep.first.df.rows[1].vals["temp_rolling_24h"] # <<>>
    /\ prep.reloaded.rows[1].vals["time"] = [text |-> "2024-01-01 00:00:00"]


----------------------------------------------------------------------------
(* Claim about the rolling mean, checked under SpecRoll *)

\* the rows of the 24-row window ending at row i that hold a temperature
WindowObs(temps, i) == {j \in 1..i : j >= i - 23 /\ temps[j] # <<>>}

RECURSIVE SumOver(_, _)
SumOver(temps, S) ==
    IF S = {} THEN 0
    ELSE LET j == CHOOSE x \in S : TRUE IN temps[j][1] + SumOver(temps, S \ {j})

\* C3: at every row i the rolling value is the mean of the non-null
\* temperatures among the 24 rows ending at i (fewer at the start), nulls
\* left out of the sum and of the count, and it is null exactly when that
\* window holds no temperature; a constant column gives that constant.
C3_RollingMean ==
    roll # None =>
        \A i \in 1..Len(roll.out) :
            LET obs == WindowObs(roll.temps, i) IN
            /\ roll.out[i] = <<>> <=> obs = {}
            /\ obs # {} =>
                /\ roll.out[i][2] = Cardinality(obs)
                /\ roll.out[i][1] = SumOver(roll.temps, obs)
            /\ (\A j \in 1..i : roll.temps[j] = <<10>>) =>
                roll.out[i][1] = 10 * roll.out[i][2]

\* C3 witness: 24 rows without a temperature, then 5: null at the 24th row
\* and the mean of the one observation at the 25th.
C3_Witness ==
    /\ roll # None
    /\ Len(roll.out) = 25
    /\ \A j \in 1..24 : roll.temps[j] = <<>>
    /\ roll.temps[25] = <<5>>
    /\ roll.out[24] = <<>>
    /\ roll.out[25] = <<5, 1>>

----------------------------------------------------------------------------
(* Claims about the dashboard script, checked under SpecDash *)

Ran == view # None

\* C6: once the preparation steps have run, the series held in
\* st.session_state.df is as it was handed to them: same columns, same
\* values and value types in every column, time included, same row order.
C6_InputNotMutated ==
    (Ran /\ "kpis" \in view.shown) => session_df = view.input

\* C9: when the loaded table has no time column, the run shows the raw
\* table and a warning and nothing else: no parsing, no sorting, no rolling
\* mean, no latest record, no KPI, and no exception.
C9_NoTimeColumnSkipsPreparer ==
    (Ran /\ view.input # None /\ "time" \notin view.input.cols) =>
        /\ view.shown = {"raw", "warning_no_time"}
        /\ view.latest = None
        /\ view.kpis = None
        /\ view.df = None
        /\ session_df = view.input

\* C9 witness: a table without a time column was uploaded over a loaded one.
C9_Witness ==
    /\ Ran
    /\ view.widgets.file
    /\ view.prior # None
    /\ view.input # None
    /\ "time" \notin view.input.cols
    /\ "warning_no_time" \in view.shown

\* C10: a run without a load action (the GCS button clicked, or a file in
\* the uploader) leaves st.session_state.df as it was, and a GCS load that
\* returns None leaves it None whatever it held before.
C10_SessionSeriesReplacedOnlyByLoad ==
    Ran =>
        /\ (~view.widgets.button /\ ~view.widgets.file) => session_df = view.prior
        /\ (view.widgets.button /\ view.input = None) => session_df = None

\* C10 witness: a series was held and a GCS load failed.
C10_Witness ==
    /\ Ran
    /\ view.widgets.button
    /\ view.input = None
    /\ view.prior # None
    /\ session_df = None

====
